---- MODULE Spec2Model ----
(***************************************************************************)
(* Model of salesforce_bulk.py: the Job / Batch / BatchQuery client of the *)
(* Salesforce Bulk API.  The server is the environment: every response is  *)
(* a nondeterministic choice among the answers the endpoint can give.      *)
(***************************************************************************)
EXTENDS Integers, Sequences, FiniteSets, TLC

VARIABLES
    batches,    \* Job.batches: sequence of Batch objects (batch_id, query, _status)
    frames,     \* call stack of the running wait / results call, innermost last
    ret,        \* what the last finished call (or generator step) gave its caller
    http,       \* the requests the last step sent, in order
    yielded,    \* the rows the running results() generator has yielded so far
    served,     \* the result pages the server returned to that generator, in order
    scope,      \* position of the caller relative to a `with job:` block
    answered,   \* the status codes of the answers to the requests in http
    job_state   \* the state of the job on the server

vars == <<batches, frames, ret, http, yielded, served, scope, answered, job_state>>

\* ---------------------------------------------------------------- bounds
MaxBatches == 2
MaxRows == 3
MaxBatchSize == 2
MaxTimeout == 30
MaxChange == 2
MaxPages == 2
MaxPageRows == 2

\* ------------------------------------------------------------- constants
DEFAULT_BATCH_SIZE == 2500
DEFAULT_TIMEOUT == 60 * 10
DEFAULT_SLEEP_INTERVAL == 10

None == [none |-> TRUE]
JobId == "J1"

\* bulk_states
COMPLETED == "Completed"
ERROR_STATES == {"Aborted", "Failed"}
InProgressStates == {"InProgress"}

\* ------------------------------------------------------------ exceptions
NoExc == [type |-> "none"]

BulkApiError(message, status_code) ==
    [type |-> "BulkApiError", message |-> message, status_code |-> status_code]

\* defined by the module and raised nowhere in it
BulkJobAborted(job_id) == [type |-> "BulkJobAborted", job_id |-> job_id]

BulkBatchFailed(job_id, batch_id, state_message) ==
    [type |-> "BulkBatchFailed", job_id |-> job_id, batch_id |-> batch_id,
     state_message |-> state_message]

AttributeError(attr) == [type |-> "AttributeError", attr |-> attr]

\* SalesforceBulk.check_status: the exception it raises for a response, or NoExc.
\* Building the BulkApiError reads response.status, which a response only has
\* when the field is in its domain.
check_status(response) ==
    IF response.status_code >= 400
    THEN IF "status" \in DOMAIN response
         THEN BulkApiError(<<"Bulk API HTTP Error result: ", response.text>>,
                           response.status)
         ELSE AttributeError("status")
    ELSE NoExc

\* ---------------------------------------------------------------- server
\* The status snapshots the status endpoint can answer for a batch.
StateMessages == {"bad row"}

Snapshots(batch_id) ==
    {[state |-> s] : s \in InProgressStates \cup {COMPLETED}}
    \cup {[state |-> s, jobId |-> JobId, id |-> batch_id, stateMessage |-> m] :
            s \in ERROR_STATES, m \in StateMessages}
    \cup {[id |-> batch_id]}

Response(code, text, json) == [status_code |-> code, text |-> text, json |-> json]

ErrorResponses == {Response(c, "error", None) : c \in {400}}

\* an answer that is no success and that check_status lets through: a status
\* below 400 with a snapshot as its body
RedirectResponses == {Response(300, "", [state |-> s]) : s \in InProgressStates}

StatusResponses(batch_id) ==
    {Response(200, "", s) : s \in Snapshots(batch_id)}
    \cup RedirectResponses \cup ErrorResponses

\* -------------------------------------------------------------- requests
Request(method, target, batch, chunk, body) ==
    [method |-> method, target |-> target, batch |-> batch, chunk |-> chunk,
     body |-> body]

StatusGet(batch_id) == Request("GET", "batch", batch_id, 0, <<>>)

\* ----------------------------------------------------------------- Batch
NewBatch(batch_id, query) == [batch_id |-> batch_id, query |-> query, _status |-> None]

\* status with the cache test lost: every call asks the server
status_always_get(self, reload, resp) ==
    IF check_status(resp) # NoExc
    THEN [reqs |-> <<StatusGet(self.batch_id)>>, exc |-> check_status(resp),
          self |-> self, val |-> None]
    ELSE [reqs |-> <<StatusGet(self.batch_id)>>, exc |-> NoExc,
          self |-> [self EXCEPT !._status = resp.json], val |-> resp.json]

\* a status that keeps the body of the answer before it checks the answer
status_store_first(self, reload, resp) ==
    IF reload \/ self._status = None
    THEN [reqs |-> <<StatusGet(self.batch_id)>>, exc |-> check_status(resp),
          self |-> [self EXCEPT !._status = resp.json],
          val |-> IF check_status(resp) # NoExc THEN None ELSE resp.json]
    ELSE [reqs |-> <<>>, exc |-> NoExc, self |-> self, val |-> self._status]

\* Batch.status(reload) when the server would answer resp: the requests sent,
\* the exception raised (or NoExc), the batch afterwards and the value returned.
status(self, reload, resp) ==
    IF reload \/ self._status = None
    THEN IF check_status(resp) # NoExc
         THEN [reqs |-> <<StatusGet(self.batch_id)>>, exc |-> check_status(resp),
               self |-> self, val |-> None]
         ELSE [reqs |-> <<StatusGet(self.batch_id)>>, exc |-> NoExc,
               self |-> [self EXCEPT !._status = resp.json], val |-> resp.json]
    ELSE [reqs |-> <<>>, exc |-> NoExc, self |-> self, val |-> self._status]

\* is_done after `batch_status = self.status(reload)`: st is what status
\* gave, error_states the states that raise
is_done_after(st, error_states) ==
    LET batch_status == st.val
        batch_state == IF "state" \in DOMAIN batch_status
                       THEN batch_status.state ELSE "None"
    IN  IF st.exc # NoExc
        THEN [reqs |-> st.reqs, exc |-> st.exc, self |-> st.self, val |-> FALSE]
        ELSE IF batch_state \in error_states
        THEN [reqs |-> st.reqs,
              exc |-> BulkBatchFailed(batch_status.jobId, batch_status.id,
                                      batch_status.stateMessage),
              self |-> st.self, val |-> FALSE]
        ELSE [reqs |-> st.reqs, exc |-> NoExc, self |-> st.self,
              val |-> (batch_state = COMPLETED)]

\* is_done that knows one error state only and calls any other state not done
is_done_failed_only(self, reload, resp) ==
    is_done_after(status(self, reload, resp), {"Failed"})

\* Batch.is_done(reload): as status, with val the boolean returned.
is_done(self, reload, resp) ==
    is_done_after(status(self, reload, resp), ERROR_STATES)

\* ------------------------------------------------------------------- Job
\* The body of a batch-creation POST and the server's answers to it.  The
\* server numbers the batches of the job in creation order.
BatchPost(rows, data) == Request("POST", "job/batch", 0, 0, [json |-> rows, data |-> data])

StateChangePost(state) == Request("POST", "job", 0, 0, [json |-> <<>>, data |-> state])

CreateResponses(batch_id) == {Response(200, "", [id |-> batch_id])} \cup ErrorResponses

PlainResponses == {Response(200, "", None)} \cup ErrorResponses

Min(a, b) == IF a < b THEN a ELSE b

\* xrange(0, len(data) - 1, batch_size): a last chunk of one row is lost
RECURSIVE xrange_short(_, _, _)
xrange_short(start, stop, step) ==
    IF start >= stop - 1 THEN <<>> ELSE <<start>> \o xrange_short(start + step, stop, step)

\* xrange(0, len(data), batch_size), as the sequence of its values
RECURSIVE xrange(_, _, _)
xrange(start, stop, step) ==
    IF start >= stop THEN <<>> ELSE <<start>> \o xrange(start + step, stop, step)

\* data[i:j] for 0 <= i <= j
Slice(data, i, j) == SubSeq(data, i + 1, Min(j, Len(data)))

\* Job.post(data, batch_size): the loop over the chunk starts, the k-th POST
\* answered by resps[k].  Gives the requests sent, the exception raised, the
\* job's batch list afterwards and the batches built by this call.
RECURSIVE post_loop(_, _, _, _, _, _, _, _)
post_loop(bs, data, batch_size, starts, k, resps, reqs, created) ==
    IF k > Len(starts)
    THEN [reqs |-> reqs, exc |-> NoExc, batches |-> bs, val |-> created]
    ELSE LET i == starts[k]
             reqs2 == Append(reqs, BatchPost(Slice(data, i, i + batch_size), ""))
         IN  IF check_status(resps[k]) # NoExc
             THEN [reqs |-> reqs2, exc |-> check_status(resps[k]), batches |-> bs,
                   val |-> created]
             ELSE LET batch == NewBatch(resps[k].json.id, FALSE)
                  IN  post_loop(Append(bs, batch), data, batch_size, starts, k + 1,
                                resps, reqs2, Append(created, batch))

\* a post that takes its batches off the job's list again when a request fails
post_rollback(bs, data, batch_size, resps) ==
    [post_loop(bs, data, batch_size, xrange(0, Len(data), batch_size), 1, resps,
               <<>>, <<>>)
       EXCEPT !.batches = IF Len(@) - Len(bs) = Len(xrange(0, Len(data), batch_size))
                          THEN @ ELSE bs]

post(bs, data, batch_size, resps) ==
    post_loop(bs, data, batch_size, xrange(0, Len(data), batch_size), 1, resps,
              <<>>, <<>>)

\* Job.is_done as all([b.is_done() for b in batches]): no batch is skipped
RECURSIVE Job_is_done_all(_, _, _, _)
Job_is_done_all_next(bs, i, resps, reqs, d) ==
    IF d.exc # NoExc
    THEN [reqs |-> reqs \o d.reqs, exc |-> d.exc,
          batches |-> [bs EXCEPT ![i] = d.self], val |-> FALSE]
    ELSE [Job_is_done_all([bs EXCEPT ![i] = d.self], i + 1, resps, reqs \o d.reqs)
            EXCEPT !.val = d.val /\ @]

Job_is_done_all(bs, i, resps, reqs) ==
    IF i > Len(bs)
    THEN [reqs |-> reqs, exc |-> NoExc, batches |-> bs, val |-> TRUE]
    ELSE Job_is_done_all_next(bs, i, resps, reqs, is_done(bs[i], FALSE, resps[i]))

\* Job.is_done(): batches from the i-th on, the i-th batch's status GET (if it
\* sends one) answered by resps[i]; d is what the i-th batch's is_done() gave.
RECURSIVE Job_is_done_from(_, _, _, _)
Job_is_done_next(bs, i, resps, reqs, d) ==
    IF d.exc # NoExc \/ ~d.val
    THEN [reqs |-> reqs \o d.reqs, exc |-> d.exc,
          batches |-> [bs EXCEPT ![i] = d.self], val |-> FALSE]
    ELSE Job_is_done_from([bs EXCEPT ![i] = d.self], i + 1, resps, reqs \o d.reqs)

Job_is_done_from(bs, i, resps, reqs) ==
    IF i > Len(bs)
    THEN [reqs |-> reqs, exc |-> NoExc, batches |-> bs, val |-> TRUE]
    ELSE Job_is_done_next(bs, i, resps, reqs, is_done(bs[i], FALSE, resps[i]))

Job_is_done(bs, resps) == Job_is_done_from(bs, 1, resps, <<>>)

\* One status answer per batch of the job; a batch that sends no GET whatever
\* the answer gets a single one.
StatusAnswersOf(batch) ==
    IF \A resp \in StatusResponses(batch.batch_id) : status(batch, FALSE, resp).reqs = <<>>
    THEN {Response(200, "", batch._status)}
    ELSE StatusResponses(batch.batch_id)

StatusAnswers(bs) ==
    {resps \in [1..Len(bs) -> UNION {StatusAnswersOf(bs[i]) : i \in 1..Len(bs)}] :
        \A i \in 1..Len(bs) : resps[i] \in StatusAnswersOf(bs[i])}

\* ------------------------------------------------------------------ calls
Returned(op, args, val) ==
    [op |-> op, args |-> args, outcome |-> "return", exc |-> NoExc, val |-> val]

Raised(op, args, exc) ==
    [op |-> op, args |-> args, outcome |-> "raise", exc |-> exc, val |-> None]

Outcome(op, args, r) ==
    IF r.exc # NoExc THEN Raised(op, args, r.exc) ELSE Returned(op, args, r.val)

\* the caller is between two calls
Ready == [op |-> "none", args |-> None, outcome |-> "none", exc |-> NoExc, val |-> None]

Idle == frames = <<>> /\ scope # "raising" /\ ret.op = "none"

\* a raise inside the `with` block leaves the block through Job.__exit__
ScopeAfter(r) == IF scope = "inside" /\ r.outcome = "raise" THEN "raising" ELSE scope

NewCall == UNCHANGED <<yielded, served>>

Init ==
    /\ batches = <<>>
    /\ frames = <<>>
    /\ ret = Ready
    /\ http = <<>>
    /\ yielded = <<>>
    /\ served = <<>>
    /\ scope = "outside"
    /\ answered = <<>>
    /\ job_state = "Open"

\* the inputs of Job.post: row lists <<1, ..., n>> and batch sizes
DataSets == {[k \in 1..n |-> k] : n \in 0..MaxRows}
BatchSizes == 1..MaxBatchSize
Chunks(n, b) == (n + b - 1) \div b

\* caller: job.query(soql)
JobQuery ==
    /\ Idle /\ NewCall
    /\ Len(batches) < MaxBatches
    /\ \E resp \in CreateResponses(Len(batches) + 1) :
         LET exc == check_status(resp)
             batch == NewBatch(resp.json.id, TRUE)
             r == IF exc # NoExc
                  THEN Raised("Job.query", None, exc)
                  ELSE Returned("Job.query", None, batch)
         IN  /\ http' = <<BatchPost(<<>>, "soql")>>
             /\ answered' = <<resp.status_code>>
             /\ batches' = IF exc # NoExc THEN batches ELSE Append(batches, batch)
             /\ ret' = r
             /\ scope' = ScopeAfter(r)
    /\ UNCHANGED frames
    /\ UNCHANGED job_state

\* caller: job.post(data, batch_size)
JobPost(data, batch_size) ==
    /\ Idle /\ NewCall
    /\ Len(batches) + Chunks(Len(data), batch_size) <= MaxBatches
    /\ \E ok \in 0..Chunks(Len(data), batch_size) :
         LET resps == [k \in 1..Chunks(Len(data), batch_size) |->
                         IF k <= ok THEN Response(200, "", [id |-> Len(batches) + k])
                         ELSE Response(400, "error", None)]
             p == post(batches, data, batch_size, resps)
             r == Outcome("Job.post", [data |-> data, batch_size |-> batch_size], p)
         IN  /\ http' = p.reqs
             /\ answered' = [j \in 1..Len(p.reqs) |-> resps[j].status_code]
             /\ batches' = p.batches
             /\ ret' = r
             /\ scope' = ScopeAfter(r)
    /\ UNCHANGED frames
    /\ UNCHANGED job_state

\* caller: job.close() / job.abort()
StateChange(op, state) ==
    /\ Idle /\ NewCall
    /\ \E resp \in PlainResponses :
         LET r == Outcome(op, None, [exc |-> check_status(resp), val |-> None])
         IN  /\ http' = <<StateChangePost(state)>>
             /\ answered' = <<resp.status_code>>
             /\ job_state' = IF check_status(resp) # NoExc THEN job_state ELSE state
             /\ ret' = r
             /\ scope' = ScopeAfter(r)
    /\ UNCHANGED <<batches, frames>>

JobClose == StateChange("Job.close", "Closed")

JobAbort == StateChange("Job.abort", "Aborted")

\* the status codes answered to reqs: all by resp, the j-th by the answer of the
\* batch it asks about
Codes(reqs, resp) == [j \in 1..Len(reqs) |-> resp.status_code]

BatchCodes(reqs, resps) == [j \in 1..Len(reqs) |-> resps[reqs[j].batch].status_code]

\* caller: batch.status(reload)
BatchStatus(i, reload) ==
    /\ Idle /\ NewCall
    /\ i \in 1..Len(batches)
    /\ \E resp \in StatusResponses(batches[i].batch_id) :
         LET st == status(batches[i], reload, resp)
             r == Outcome("Batch.status", [batch |-> i, reload |-> reload], st)
         IN  /\ batches' = [batches EXCEPT ![i] = st.self]
             /\ http' = st.reqs
             /\ answered' = Codes(st.reqs, resp)
             /\ ret' = r
             /\ scope' = ScopeAfter(r)
    /\ UNCHANGED frames
    /\ UNCHANGED job_state

\* caller: batch.is_done(reload)
BatchIsDone(i, reload) ==
    /\ Idle /\ NewCall
    /\ i \in 1..Len(batches)
    /\ \E resp \in StatusResponses(batches[i].batch_id) :
         LET d == is_done(batches[i], reload, resp)
             r == Outcome("Batch.is_done", [batch |-> i, reload |-> reload], d)
         IN  /\ batches' = [batches EXCEPT ![i] = d.self]
             /\ http' = d.reqs
             /\ answered' = Codes(d.reqs, resp)
             /\ ret' = r
             /\ scope' = ScopeAfter(r)
    /\ UNCHANGED frames
    /\ UNCHANGED job_state

\* caller: job.is_done()
JobIsDone ==
    /\ Idle /\ NewCall
    /\ \E resps \in StatusAnswers(batches) :
         LET d == Job_is_done(batches, resps)
             r == Outcome("Job.is_done", None, d)
         IN  /\ batches' = d.batches
             /\ http' = d.reqs
             /\ answered' = BatchCodes(d.reqs, resps)
             /\ ret' = r
             /\ scope' = ScopeAfter(r)
    /\ UNCHANGED frames
    /\ UNCHANGED job_state

\* ------------------------------------------------------------ Batch.wait
\* What the status endpoint answers to the successive GETs of one call: the
\* j-th GET gets answers[j], the GETs after the last one get the last again.
Answer(answers, j) == answers[Min(j, Len(answers))]

AnswerCodes(reqs, answers) == [j \in 1..Len(reqs) |-> Answer(answers, j).status_code]

\* the snapshots is_done() calls not done without raising
InProgressSnapshots(batch_id) ==
    {s \in Snapshots(batch_id) :
        ~("state" \in DOMAIN s /\ s.state \in ERROR_STATES \cup {COMPLETED})}

InProgressResponses == {Response(200, "", [state |-> s]) : s \in InProgressStates}

\* the batch stays in an in-progress state for good, or for k polls
\* (k <= MaxChange) and then gives a last answer r: done, failed or an HTTP error
Answers(batch_id) ==
    {<<p>> : p \in InProgressResponses}
    \cup {[j \in 1..(k + 1) |-> IF j <= k THEN p ELSE r] :
            k \in 0..MaxChange, p \in InProgressResponses,
            r \in {a \in StatusResponses(batch_id) :
                      check_status(a) # NoExc \/ a.json \notin InProgressSnapshots(batch_id)}}

\* a loop that takes a rejected poll for `not done yet` and polls again
wait_turn_retry(d, w, more) ==
    LET again == (d.exc.type \notin {"none", "BulkBatchFailed"} \/ (d.exc = NoExc /\ ~d.val))
                 /\ more
    IN  [reqs |-> d.reqs, exc |-> IF again THEN NoExc ELSE d.exc, self |-> d.self,
         again |-> again,
         w |-> [w EXCEPT !.polled = Append(@, w.waited),
                         !.waited = IF again THEN @ + w.sleep_interval ELSE @]]

\* One turn of `while not self.is_done(True) and waited < timeout`: the
\* condition and, when it holds, the body.  d is what is_done(True) gave and
\* more the value of `waited < timeout`; w holds timeout, sleep_interval,
\* waited and polled, the values of waited at the polls made so far.
wait_turn(d, w, more) ==
    LET again == d.exc = NoExc /\ ~d.val /\ more
    IN  [reqs |-> d.reqs, exc |-> d.exc, self |-> d.self, again |-> again,
         w |-> [w EXCEPT !.polled = Append(@, w.waited),
                         !.waited = IF again THEN @ + w.sleep_interval ELSE @]]

\* the loop with `waited <= timeout`
wait_step_inclusive(self, w, resp) ==
    wait_turn(is_done(self, TRUE, resp), w, w.waited <= w.timeout)

wait_step(self, w, resp) ==
    wait_turn(is_done(self, TRUE, resp), w, w.waited < w.timeout)

\* the loop of Batch.wait, its j-th GET answered by Answer(answers, from+j-1);
\* r is the turn just made
RECURSIVE wait_loop(_, _, _, _, _)
wait_next(r, answers, from, reqs) ==
    IF r.again
    THEN wait_loop(r.self, r.w, answers, from, reqs \o r.reqs)
    ELSE [reqs |-> reqs \o r.reqs, exc |-> r.exc, self |-> r.self, val |-> r.w]

wait_loop(self, w, answers, from, reqs) ==
    wait_next(wait_step(self, w, Answer(answers, from + Len(w.polled))),
              answers, from, reqs)

\* Batch.wait(timeout, sleep_interval), its first GET answered by answers[from]
wait(self, timeout, sleep_interval, answers, from) ==
    wait_loop(self, [timeout |-> timeout, sleep_interval |-> sleep_interval,
                     waited |-> 0, polled |-> <<>>], answers, from, <<>>)

\* `if not <d>: self.wait()`, d being what the is_done call gave
results_waited(d, w) ==
    [reqs |-> d.reqs \o w.reqs, exc |-> w.exc, self |-> w.self, waited |-> TRUE]

ensure_done_after(d, answers) ==
    IF d.exc # NoExc \/ d.val
    THEN [reqs |-> d.reqs, exc |-> d.exc, self |-> d.self, waited |-> FALSE]
    ELSE results_waited(d, wait(d.self, DEFAULT_TIMEOUT, DEFAULT_SLEEP_INTERVAL,
                                answers, 1 + Len(d.reqs)))

\* results() testing `self.is_done(True)`: the cached state is not trusted
ensure_done_reload(self, answers) ==
    ensure_done_after(is_done(self, TRUE, Answer(answers, 1)), answers)

\* `if not self.is_done(): self.wait()` of Batch.results and BatchQuery.results
ensure_done(self, answers) ==
    ensure_done_after(is_done(self, FALSE, Answer(answers, 1)), answers)

\* ---------------------------------------------------------------- frames
\* Job.wait(timeout, sleep_interval), about to wait on its i-th batch; slept
\* is the time the waits made so far have slept
JobWaitFrame(timeout, sleep_interval) ==
    [fn |-> "Job.wait", i |-> 1, timeout |-> timeout, sleep_interval |-> sleep_interval,
     slept |-> 0]

\* one deadline for the whole job: a batch gets what the earlier ones left
batch_timeout_shared(f) == IF f.slept >= f.timeout THEN 0 ELSE f.timeout - f.slept

\* the timeout Job.wait passes to batch.wait: its own argument, for every batch
batch_timeout(f) == f.timeout

\* the generator of Batch.results / BatchQuery.results on the i-th batch
ResultsFrame(i) ==
    [fn |-> IF batches[i].query THEN "BatchQuery.results" ELSE "Batch.results",
     batch |-> i, pc |-> "start", result_ids |-> <<>>, rows |-> <<>>]

\* the loop of Job.results starting at the second batch
JobResultsFrame_skip_first == [fn |-> "Job.results", pc |-> "start", i |-> 2]

\* the generator of Job.results, about to take its i-th batch
JobResultsFrame == [fn |-> "Job.results", pc |-> "start", i |-> 1]

Top == frames[Len(frames)]
Pop == SubSeq(frames, 1, Len(frames) - 1)
Running(fn) == frames # <<>> /\ Top.fn = fn

Called(f) == [op |-> "call", args |-> f, outcome |-> "running", exc |-> NoExc, val |-> None]
Step(op, f, val) == [op |-> op, args |-> f, outcome |-> "running", exc |-> NoExc, val |-> val]

\* the exception leaves every frame: nothing in the module catches it
RaiseFrom(op, f, exc) ==
    /\ frames' = <<>>
    /\ ret' = Raised(op, f, exc)
    /\ scope' = ScopeAfter(Raised(op, f, exc))

ReturnFrom(f) ==
    /\ frames' = Pop
    /\ ret' = Returned(f.fn, f, None)
    /\ UNCHANGED scope

Timeouts == {0, MaxTimeout - 5, MaxTimeout}
SleepIntervals == {10, 20}

\* caller: batch.wait(timeout, sleep_interval)
BatchWait(i, timeout, sleep_interval) ==
    /\ Idle /\ NewCall
    /\ i \in 1..Len(batches)
    /\ \E answers \in Answers(batches[i].batch_id) :
         \E w \in {wait(batches[i], timeout, sleep_interval, answers, 1)} :
         LET r == Outcome("Batch.wait", [batch |-> i, timeout |-> timeout,
                                         sleep_interval |-> sleep_interval], w)
         IN  /\ batches' = [batches EXCEPT ![i] = w.self]
             /\ http' = w.reqs
             /\ answered' = AnswerCodes(w.reqs, answers)
             /\ ret' = r
             /\ scope' = ScopeAfter(r)
    /\ UNCHANGED frames
    /\ UNCHANGED job_state

\* Batch.wait(timeout, sleep_interval) on the i-th batch, turn by turn: waited
\* is the local of the method, turn the number of turns made, modulo 2
WaitFrame(i, timeout, sleep_interval) ==
    [fn |-> "Batch.wait", batch |-> i, timeout |-> timeout,
     sleep_interval |-> sleep_interval, waited |-> 0, turn |-> 0]

WaitTimeouts == {0, MaxTimeout}
WaitSleepIntervals == {0, DEFAULT_SLEEP_INTERVAL}

\* caller: batch.wait(timeout, sleep_interval), up to `waited = 0`
WaitCall(i, timeout, sleep_interval) ==
    /\ Idle /\ NewCall
    /\ i \in 1..Len(batches)
    /\ frames' = <<WaitFrame(i, timeout, sleep_interval)>>
    /\ ret' = Called(WaitFrame(i, timeout, sleep_interval))
    /\ http' = <<>>
    /\ answered' = <<>>
    /\ UNCHANGED <<batches, scope>>
    /\ UNCHANGED job_state

\* the frame after the turn r of its loop
WaitFrameAfter(f, r) == [f EXCEPT !.waited = r.w.waited, !.turn = (@ + 1) % 2]

WaitTurnOutcome(f, r) ==
    /\ batches' = [batches EXCEPT ![f.batch] = r.self]
    /\ http' = r.reqs
    /\ IF r.exc # NoExc
       THEN RaiseFrom("Batch.wait", f, r.exc)
       ELSE IF r.again
            THEN /\ frames' = Append(Pop, WaitFrameAfter(f, r))
                 /\ ret' = Step("time.sleep", f, None)
                 /\ UNCHANGED scope
            ELSE ReturnFrom(f)

\* Batch.wait: one evaluation of `not self.is_done(True) and waited < timeout`
\* and, when it is true, the body: sleep, then `waited += sleep_interval`
WaitTurn ==
    /\ Running("Batch.wait")
    /\ \E resp \in StatusResponses(batches[Top.batch].batch_id) :
         /\ WaitTurnOutcome(Top, wait_step(batches[Top.batch],
                                           [timeout |-> Top.timeout,
                                            sleep_interval |-> Top.sleep_interval,
                                            waited |-> Top.waited, polled |-> <<>>],
                                           resp))
         /\ answered' = <<resp.status_code>>
    /\ UNCHANGED <<yielded, served>>
    /\ UNCHANGED job_state

\* caller: job.wait(timeout, sleep_interval)
JobWait(timeout, sleep_interval) ==
    /\ Idle /\ NewCall
    /\ frames' = <<JobWaitFrame(timeout, sleep_interval)>>
    /\ ret' = Called(JobWaitFrame(timeout, sleep_interval))
    /\ http' = <<>>
    /\ answered' = <<>>
    /\ UNCHANGED <<batches, scope>>
    /\ UNCHANGED job_state

\* Job.wait: `for batch in self.batches: batch.wait(timeout, sleep_interval)`,
\* one turn of the loop
JobWaitStep ==
    /\ Running("Job.wait")
    /\ IF Top.i <= Len(batches)
       THEN \E answers \in Answers(batches[Top.i].batch_id) :
              \E w \in {wait(batches[Top.i], batch_timeout(Top), Top.sleep_interval,
                               answers, 1)} :
              LET args == [batch |-> Top.i, timeout |-> batch_timeout(Top),
                           sleep_interval |-> Top.sleep_interval]
              IN  /\ batches' = [batches EXCEPT ![Top.i] = w.self]
                  /\ http' = w.reqs
                  /\ answered' = AnswerCodes(w.reqs, answers)
                  /\ IF w.exc # NoExc
                     THEN RaiseFrom("Batch.wait", args, w.exc)
                     ELSE /\ frames' = Append(Pop, [Top EXCEPT !.i = @ + 1,
                                                               !.slept = @ + w.val.waited])
                          /\ ret' = Returned("Batch.wait", args, w.val)
                          /\ UNCHANGED scope
       ELSE ReturnFrom(Top) /\ http' = <<>> /\ answered' = <<>> /\ UNCHANGED batches
    /\ UNCHANGED <<yielded, served>>
    /\ UNCHANGED job_state

\* --------------------------------------------------------------- results
\* The rows of a result page: the server's rows are all different.
Page(batch_id, chunk, n) == [k \in 1..n |-> [batch |-> batch_id, chunk |-> chunk, row |-> k]]

ResultGet(batch_id) == Request("GET", "batch/result", batch_id, 0, <<>>)
ChunkGet(batch_id, result_id) == Request("GET", "batch/result/id", batch_id, result_id, <<>>)

\* a page is empty or full
PageSizes == {0, MaxPageRows}

PageResponses(batch_id, chunk) ==
    {Response(200, "", Page(batch_id, chunk, n)) : n \in PageSizes} \cup ErrorResponses

\* the result ids of a query: no chunk or MaxPages chunks, listed from the
\* newest to the oldest
ResultIdLists == {[j \in 1..n |-> n + 1 - j] : n \in {0, MaxPages}}

ResultIdResponses == {Response(200, "", ids) : ids \in ResultIdLists} \cup ErrorResponses

Served(batch_id, chunk, ids, rows) ==
    [batch |-> batch_id, chunk |-> chunk, ids |-> ids, rows |-> rows]

\* caller: batch.results() -- builds the generator, runs nothing yet
BatchResults(i) ==
    /\ Idle /\ NewCall
    /\ i \in 1..Len(batches)
    /\ frames' = <<ResultsFrame(i)>>
    /\ ret' = Called(ResultsFrame(i))
    /\ http' = <<>>
    /\ answered' = <<>>
    /\ UNCHANGED <<batches, scope>>
    /\ UNCHANGED job_state

\* Batch.results / BatchQuery.results: `if not self.is_done(): self.wait()`
ResultsStart ==
    /\ Running("Batch.results") \/ Running("BatchQuery.results")
    /\ Top.pc = "start"
    /\ \E answers \in Answers(batches[Top.batch].batch_id) :
         \E e \in {ensure_done(batches[Top.batch], answers)} :
             /\ batches' = [batches EXCEPT ![Top.batch] = e.self]
             /\ http' = e.reqs
             /\ answered' = AnswerCodes(e.reqs, answers)
             /\ IF e.exc # NoExc
                THEN RaiseFrom(Top.fn, Top, e.exc)
                ELSE /\ frames' = Append(Pop, [Top EXCEPT !.pc = "get"])
                     /\ ret' = Step("ensure_done", Top, e.waited)
                     /\ UNCHANGED scope
    /\ UNCHANGED <<yielded, served>>
    /\ UNCHANGED job_state

\* Batch.results: the GET of the result endpoint
BatchResultsGet ==
    /\ Running("Batch.results")
    /\ Top.pc = "get"
    /\ \E resp \in PageResponses(batches[Top.batch].batch_id, 0) :
         /\ http' = <<ResultGet(batches[Top.batch].batch_id)>>
         /\ answered' = <<resp.status_code>>
         /\ IF check_status(resp) # NoExc
            THEN RaiseFrom(Top.fn, Top, check_status(resp)) /\ UNCHANGED served
            ELSE /\ frames' = Append(Pop, [Top EXCEPT !.pc = "iter", !.rows = resp.json])
                 /\ served' = Append(served, Served(batches[Top.batch].batch_id, 0, <<>>,
                                                    resp.json))
                 /\ ret' = Step("session.get", Top, resp.json)
                 /\ UNCHANGED scope
    /\ UNCHANGED <<batches, yielded>>
    /\ UNCHANGED job_state

\* BatchQuery.results: the GET of the list of result ids
BatchQueryResultsGet ==
    /\ Running("BatchQuery.results")
    /\ Top.pc = "get"
    /\ \E resp \in ResultIdResponses :
         /\ http' = <<ResultGet(batches[Top.batch].batch_id)>>
         /\ answered' = <<resp.status_code>>
         /\ IF check_status(resp) # NoExc
            THEN RaiseFrom(Top.fn, Top, check_status(resp)) /\ UNCHANGED served
            ELSE /\ frames' = Append(Pop, [Top EXCEPT !.pc = "ids", !.result_ids = resp.json])
                 /\ served' = Append(served, Served(batches[Top.batch].batch_id, 0,
                                                    resp.json, <<>>))
                 /\ ret' = Step("session.get", Top, resp.json)
                 /\ UNCHANGED scope
    /\ UNCHANGED <<batches, yielded>>
    /\ UNCHANGED job_state

\* a generator that fetches the next chunk while rows of the last one remain
ChunkDue_eager == Top.pc \in {"ids", "iter"}

\* the generator is resumed at the head of `for result_id in result_ids`:
\* the inner `for row in ...: yield row` is exhausted
ChunkDue == Top.pc = "ids"

\* BatchQuery.results: `for result_id in result_ids`, the GET of the next chunk
BatchQueryResultsChunk ==
    /\ Running("BatchQuery.results")
    /\ ChunkDue
    /\ IF Top.result_ids = <<>>
       THEN ReturnFrom(Top) /\ http' = <<>> /\ answered' = <<>> /\ UNCHANGED served
       ELSE \E resp \in PageResponses(batches[Top.batch].batch_id, Head(Top.result_ids)) :
              /\ http' = <<ChunkGet(batches[Top.batch].batch_id, Head(Top.result_ids))>>
              /\ answered' = <<resp.status_code>>
              /\ IF check_status(resp) # NoExc
                 THEN RaiseFrom(Top.fn, Top, check_status(resp)) /\ UNCHANGED served
                 ELSE /\ frames' = Append(Pop, [Top EXCEPT !.pc = "iter",
                                                           !.result_ids = Tail(@),
                                                           !.rows = resp.json])
                      /\ served' = Append(served, Served(batches[Top.batch].batch_id,
                                                         Head(Top.result_ids), <<>>,
                                                         resp.json))
                      /\ ret' = Step("session.get", Top, resp.json)
                      /\ UNCHANGED scope
    /\ UNCHANGED <<batches, yielded>>
    /\ UNCHANGED job_state

\* BatchQuery.results returning after the rows of its first chunk
ResultsYield_first_chunk ==
    /\ Running("Batch.results") \/ Running("BatchQuery.results")
    /\ Top.pc = "iter"
    /\ IF Top.rows # <<>>
       THEN /\ frames' = Append(Pop, [Top EXCEPT !.rows = Tail(@)])
            /\ yielded' = Append(yielded, Head(Top.rows))
            /\ ret' = Step("yield", Top, Head(Top.rows))
            /\ UNCHANGED scope
       ELSE ReturnFrom(Top) /\ UNCHANGED yielded
    /\ http' = <<>>
    /\ answered' = <<>>
    /\ UNCHANGED <<batches, served>>
    /\ UNCHANGED job_state

\* `for row in resp.json(): yield row`, in both generators
ResultsYield ==
    /\ Running("Batch.results") \/ Running("BatchQuery.results")
    /\ Top.pc = "iter"
    /\ IF Top.rows # <<>>
       THEN /\ frames' = Append(Pop, [Top EXCEPT !.rows = Tail(@)])
            /\ yielded' = Append(yielded, Head(Top.rows))
            /\ ret' = Step("yield", Top, Head(Top.rows))
            /\ UNCHANGED scope
       ELSE /\ IF Top.fn = "BatchQuery.results"
               THEN /\ frames' = Append(Pop, [Top EXCEPT !.pc = "ids"])
                    /\ ret' = Step("for", Top, None)
                    /\ UNCHANGED scope
               ELSE ReturnFrom(Top)
            /\ UNCHANGED yielded
    /\ http' = <<>>
    /\ answered' = <<>>
    /\ UNCHANGED <<batches, served>>
    /\ UNCHANGED job_state

\* caller: job.results() -- builds the generator, runs nothing yet
JobResults ==
    /\ Idle /\ NewCall
    /\ frames' = <<JobResultsFrame>>
    /\ ret' = Called(JobResultsFrame)
    /\ http' = <<>>
    /\ answered' = <<>>
    /\ UNCHANGED <<batches, scope>>
    /\ UNCHANGED job_state

\* Job.results: `if not self.is_done(): self.wait()`
JobResultsStart ==
    /\ Running("Job.results")
    /\ Top.pc = "start"
    /\ \E resps \in StatusAnswers(batches) :
         LET d == Job_is_done(batches, resps)
             f == [Top EXCEPT !.pc = "loop"]
         IN  /\ batches' = d.batches
             /\ http' = d.reqs
             /\ answered' = BatchCodes(d.reqs, resps)
             /\ IF d.exc # NoExc
                THEN RaiseFrom(Top.fn, Top, d.exc)
                ELSE /\ frames' = IF d.val
                                  THEN Append(Pop, f)
                                  ELSE Pop \o <<f, JobWaitFrame(DEFAULT_TIMEOUT,
                                                                DEFAULT_SLEEP_INTERVAL)>>
                     /\ ret' = Step("Job.is_done", Top, d.val)
                     /\ UNCHANGED scope
    /\ UNCHANGED <<yielded, served>>
    /\ UNCHANGED job_state

\* Job.results: `for batch in self.batches`, the next batch.results()
JobResultsLoop ==
    /\ Running("Job.results")
    /\ Top.pc = "loop"
    /\ IF Top.i <= Len(batches)
       THEN /\ frames' = Pop \o <<[Top EXCEPT !.i = @ + 1], ResultsFrame(Top.i)>>
            /\ ret' = Called(ResultsFrame(Top.i))
            /\ UNCHANGED scope
       ELSE ReturnFrom(Top)
    /\ http' = <<>>
    /\ answered' = <<>>
    /\ UNCHANGED <<batches, yielded, served>>
    /\ UNCHANGED job_state

\* the caller has taken the outcome of its last call and goes on
Continue ==
    /\ frames = <<>>
    /\ scope # "raising"
    /\ ret.op # "none"
    /\ ret' = Ready
    /\ http' = <<>>
    /\ answered' = <<>>
    /\ yielded' = <<>>
    /\ served' = <<>>
    /\ UNCHANGED <<batches, frames, scope>>
    /\ UNCHANGED job_state

\* ----------------------------------------------------------------- scope
UserError == [type |-> "UserError"]

\* Job.__exit__(exc, value, traceback): close(), then None is returned, so the
\* exception that entered (if any) goes on to the caller.  Gives the exception
\* the caller of the `with` statement sees, or NoExc.
Job__exit__(exc, resp) ==
    IF check_status(resp) # NoExc THEN check_status(resp) ELSE exc

\* caller: `with job:` -- Job.__enter__
JobEnter ==
    /\ Idle /\ NewCall
    /\ scope = "outside"
    /\ scope' = "inside"
    /\ ret' = Returned("Job.__enter__", None, None)
    /\ http' = <<>>
    /\ answered' = <<>>
    /\ UNCHANGED <<batches, frames>>
    /\ UNCHANGED job_state

\* caller: the code of the block raises by itself
BodyRaise ==
    /\ Idle /\ NewCall
    /\ scope = "inside"
    /\ scope' = "raising"
    /\ ret' = Raised("body", None, UserError)
    /\ http' = <<>>
    /\ answered' = <<>>
    /\ UNCHANGED <<batches, frames>>
    /\ UNCHANGED job_state

\* the block is left, by its end or by the exception in ret: Job.__exit__
JobExit ==
    /\ frames = <<>>
    /\ scope = "raising" \/ (scope = "inside" /\ ret.op = "none")
    /\ \E resp \in PlainResponses :
         LET entered == IF scope = "raising" THEN ret.exc ELSE NoExc
             exc == Job__exit__(entered, resp)
         IN  /\ http' = <<StateChangePost("Closed")>>
             /\ answered' = <<resp.status_code>>
             /\ job_state' = IF check_status(resp) # NoExc THEN job_state ELSE "Closed"
             /\ ret' = IF exc # NoExc
                       THEN Raised("Job.__exit__",
                                   [exc |-> entered, close |-> resp.status_code], exc)
                       ELSE Returned("Job.__exit__",
                                     [exc |-> entered, close |-> resp.status_code], None)
    /\ scope' = "outside"
    /\ yielded' = <<>>
    /\ served' = <<>>
    /\ UNCHANGED <<batches, frames>>

\* ---------------------------------------------------------------- client
\* A Python string (an optional argument is a string or None), and its truth
\* value: None and the empty string are false.
Str(s) == [str |-> s]
Truthy(x) == x # None /\ x # Str("")

RuntimeError(message) == [type |-> "RuntimeError", message |-> message]
ParseError == [type |-> "ParseError"]

API_version == "36.0"

\* a URL as scheme, host name and path; urlparse(url).hostname
Url(scheme, hostname, path) == <<scheme, hostname, path>>
hostname(url) == url[2]

\* the login request: the SOAP envelope with username and password formatted
\* into it, posted to the login endpoint of host
LoginPost(host, username, password) ==
    [method |-> "POST", target |-> Url("https", host, <<"/services/Soap/u/", API_version>>),
     body |-> [username |-> username, password |-> password]]

\* What the login endpoint answers: a login result with the server URL and a
\* session id, a SOAP fault (an envelope without these elements), or a body
\* that is not XML.
Instances == {"na1.salesforce.com", "cs2.salesforce.com"}
LoginSessionIds == {Str("L1"), Str("L2")}
NotXml == [xml |-> FALSE]
SoapFault == [xml |-> TRUE, serverUrl |-> None, sessionId |-> None]
LoginResult(server, sid) ==
    [xml |-> TRUE, serverUrl |-> Url("https", server, "/services/Soap/u"), sessionId |-> sid]

LoginResponses ==
    {[status_code |-> 200, content |-> LoginResult(h, sid)] :
        h \in Instances, sid \in LoginSessionIds}
    \cup {[status_code |-> 500, content |-> SoapFault],
          [status_code |-> 200, content |-> NotXml]}

\* SalesforceBulk.login answered with r: ET.parse of the content, then
\* tree.find(...).text of the two elements; find gives None for an element
\* that is absent.  The status of the answer is not looked at.
login(username, password, host, r) ==
    [reqs |-> <<LoginPost(host, username, password)>>,
     exc |-> IF ~r.content.xml THEN ParseError
             ELSE IF r.content.serverUrl = None \/ r.content.sessionId = None
                  THEN AttributeError("text")
                  ELSE NoExc,
     val |-> IF r.content.xml /\ r.content.serverUrl # None /\ r.content.sessionId # None
             THEN <<hostname(r.content.serverUrl), r.content.sessionId>>
             ELSE None]

\* the client after login gave l: endpoint and session headers
Client(l) ==
    [endpoint |-> Url("https", l.val[1], <<"/services/async/", API_version>>),
     headers |-> [h \in {"X-SFDC-Session", "Content-Type"} |->
                    IF h = "X-SFDC-Session" THEN l.val[2] ELSE Str("application/json")]]

SalesforceBulk_after(l) ==
    [reqs |-> l.reqs, exc |-> l.exc, val |-> IF l.exc # NoExc THEN None ELSE Client(l)]

ConfigurationError ==
    RuntimeError("Must supply either sessionId/instance_url or username/password")

\* a constructor that logs in first and looks at its arguments afterwards
SalesforceBulk__init___late_check(sessionId, host, username, password, r) ==
    IF login(username, password, host, r).exc = NoExc
       /\ ~Truthy(sessionId) /\ ~Truthy(username)
    THEN [reqs |-> login(username, password, host, r).reqs, exc |-> ConfigurationError,
          val |-> None]
    ELSE SalesforceBulk_after(login(username, password, host, r))

\* SalesforceBulk.__init__(sessionId, host, username, password), its login
\* request answered with r
SalesforceBulk__init__(sessionId, host, username, password, r) ==
    IF ~Truthy(sessionId) /\ ~Truthy(username)
    THEN [reqs |-> <<>>, exc |-> ConfigurationError, val |-> None]
    ELSE SalesforceBulk_after(login(username, password, host, r))

SessionIds == {None, Str(""), Str("S1")}
Usernames == {None, Str(""), Str("u1")}
Passwords == {None, Str("pw")}
Hosts == {"login.salesforce.com", "test.salesforce.com"}

\* caller: SalesforceBulk(sessionId=..., host=..., username=..., password=...)
Construct(sessionId, host, username, password) ==
    /\ Idle /\ NewCall
    /\ \E r \in LoginResponses :
         LET c == SalesforceBulk__init__(sessionId, host, username, password, r)
             o == Outcome("SalesforceBulk",
                          [sessionId |-> sessionId, host |-> host, username |-> username,
                           password |-> password], c)
         IN  /\ http' = c.reqs
             /\ answered' = Codes(c.reqs, r)
             /\ ret' = o
             /\ scope' = ScopeAfter(o)
    /\ UNCHANGED <<batches, frames>>
    /\ UNCHANGED job_state

\* -------------------------------------------------------- specifications
\* The job's own requests: batch creation, close, abort, the `with` block.
Next ==
    \/ JobQuery
    \/ \E data \in DataSets, batch_size \in BatchSizes : JobPost(data, batch_size)
    \/ JobClose
    \/ JobAbort
    \/ JobEnter
    \/ BodyRaise
    \/ JobExit
    \/ Continue

Spec == Init /\ [][Next]_vars

\* Polling: status, is_done and wait on the batches of an upload job.
NextPoll ==
    \/ \E data \in DataSets, batch_size \in BatchSizes : JobPost(data, batch_size)
    \/ \E i \in 1..MaxBatches, reload \in BOOLEAN : BatchStatus(i, reload)
    \/ \E i \in 1..MaxBatches, reload \in BOOLEAN : BatchIsDone(i, reload)
    \/ JobIsDone
    \/ \E i \in 1..MaxBatches, timeout \in Timeouts, sleep_interval \in SleepIntervals :
         BatchWait(i, timeout, sleep_interval)
    \/ \E timeout \in Timeouts, sleep_interval \in SleepIntervals :
         JobWait(timeout, sleep_interval)
    \/ JobWaitStep
    \/ Continue

SpecPoll == Init /\ [][NextPoll]_vars

\* Result retrieval: the three results() generators and the waits they start.
NextResults ==
    \/ JobQuery
    \/ \E data \in DataSets, batch_size \in BatchSizes : JobPost(data, batch_size)
    \/ \E i \in 1..MaxBatches, reload \in BOOLEAN : BatchIsDone(i, reload)
    \/ \E i \in 1..MaxBatches : BatchWait(i, DEFAULT_TIMEOUT, DEFAULT_SLEEP_INTERVAL)
    \/ \E i \in 1..MaxBatches : BatchResults(i)
    \/ ResultsStart
    \/ BatchResultsGet
    \/ BatchQueryResultsGet
    \/ BatchQueryResultsChunk
    \/ ResultsYield
    \/ JobResults
    \/ JobResultsStart
    \/ JobResultsLoop
    \/ JobWaitStep
    \/ Continue

SpecResults == Init /\ [][NextResults]_vars

\* Construction of the client.
NextClient ==
    \/ \E sessionId \in SessionIds, host \in Hosts, username \in Usernames,
          password \in Passwords : Construct(sessionId, host, username, password)
    \/ Continue

SpecClient == Init /\ [][NextClient]_vars

\* Batch.wait turn by turn.  A wait that has started goes on running: the
\* next turn of its loop is taken as long as there is one (every turn changes
\* the frame of the wait or ends it).
NextWait ==
    \/ JobQuery
    \/ \E i \in 1..MaxBatches, timeout \in WaitTimeouts,
          sleep_interval \in WaitSleepIntervals : WaitCall(i, timeout, sleep_interval)
    \/ WaitTurn
    \/ Continue

SpecWait == Init /\ [][NextWait]_vars /\ WF_frames(WaitTurn)
\* ---------------------------------------------------------------- claims
IsError(snap) == "state" \in DOMAIN snap /\ snap.state \in ERROR_STATES
IsCompleted(snap) == "state" \in DOMAIN snap /\ snap.state = COMPLETED
HttpError(exc) == \E resp \in ErrorResponses : exc = check_status(resp)
Ceil(t, s) == (t + s - 1) \div s

\* C1: whenever Batch.is_done has read a status snapshot (cached or freshly
\* polled), it raises BulkBatchFailed with the snapshot's jobId, id and
\* stateMessage if the snapshot's state is an error state, on the first call
\* and on every later one; otherwise it returns whether the state is the
\* completed state.
C1_IsDoneRaisesOnErrorState ==
    (ret.op = "Batch.is_done" /\ ~HttpError(ret.exc)) =>
        LET snap == batches[ret.args.batch]._status
        IN  IF IsError(snap)
            THEN /\ ret.outcome = "raise"
                 /\ ret.exc = BulkBatchFailed(snap.jobId, snap.id, snap.stateMessage)
            ELSE /\ ret.outcome = "return"
                 /\ ret.val = IsCompleted(snap)

\* an is_done() answered from the cache raised the batch failure once more
C1_Witness ==
    /\ ret.op = "Batch.is_done"
    /\ ~ret.args.reload
    /\ http = <<>>
    /\ ret.exc.type = "BulkBatchFailed"

\* C2: a call of Batch.status or Batch.is_done sends a status GET exactly when
\* reload is true or the batch has no cached snapshot; a status call that sends
\* none returns the cached snapshot and leaves the batch as it is, and one that
\* succeeds leaves the snapshot it returns in the cache.
C2_StatusCached ==
    [][(ret.op = "none" /\ ret'.op \in {"Batch.status", "Batch.is_done"}) =>
        LET i == ret'.args.batch
            cached == batches[i]._status
        IN  /\ (http' # <<>>) <=> (ret'.args.reload \/ cached = None)
            /\ http' # <<>> => http' = <<StatusGet(batches[i].batch_id)>>
            /\ http' = <<>> => batches' = batches
            /\ (ret'.op = "Batch.status" /\ ret'.outcome = "return") =>
                    /\ ret'.val = batches'[i]._status
                    /\ http' = <<>> => ret'.val = cached]_vars

\* a status(reload=False) on a batch with a cached snapshot sent nothing
C2_Witness ==
    /\ ret.op = "Batch.status"
    /\ ~ret.args.reload
    /\ ret.outcome = "return"
    /\ http = <<>>
    /\ ret.val # None

\* C3: Batch.wait(T, s) with s > 0 polls at the accumulated sleep times 0, s,
\* 2s, ..., never more than ceil(T/s) times after the first poll; it raises
\* only for a poll that failed or reported an error state; and when the batch
\* is still not completed at the end it has made exactly ceil(T/s) polls after
\* the first, has slept ceil(T/s)*s >= T and returns normally.
C3_WaitPollsUntilTimeout ==
    ret.op = "Batch.wait" =>
        LET T == ret.args.timeout
            s == ret.args.sleep_interval
            self == batches[ret.args.batch]
        IN  /\ Len(http) >= 1
            /\ Len(http) - 1 <= Ceil(T, s)
            /\ \A j \in DOMAIN http : http[j] = StatusGet(self.batch_id)
            /\ ret.outcome = "raise" =>
                 \/ HttpError(ret.exc)
                 \/ IsError(self._status) /\ ret.exc.type = "BulkBatchFailed"
            /\ ret.outcome = "return" =>
                 /\ ret.val.polled = [j \in 1..Len(http) |-> (j - 1) * s]
                 /\ ~IsCompleted(self._status) =>
                      /\ Len(http) - 1 = Ceil(T, s)
                      /\ ret.val.waited = Ceil(T, s) * s
                      /\ ret.val.waited >= T

\* wait(MaxTimeout, 10) on a batch that stays in progress: ceil(MaxTimeout/10)
\* polls after the first, then a normal return
C3_Witness ==
    /\ ret.op = "Batch.wait"
    /\ ret.outcome = "return"
    /\ ret.args.timeout = MaxTimeout
    /\ ret.args.sleep_interval = 10
    /\ ~IsCompleted(batches[ret.args.batch]._status)
    /\ Len(http) = Ceil(MaxTimeout, 10) + 1

\* C5: Job.is_done returns true iff every batch of the job is completed; the
\* batches after the first one that is not done get no status request and keep
\* their cached snapshot; the requests it sends follow the insertion order.
C5_JobIsDoneShortCircuits ==
    [][(ret.op = "none" /\ ret'.op = "Job.is_done") =>
        LET n == Len(batches)
            notdone == {i \in 1..n : ~IsCompleted(batches'[i]._status)}
        IN  /\ ret'.outcome = "return" => (ret'.val <=> notdone = {})
            /\ \A k \in notdone : (\A i \in notdone : k <= i) =>
                 \A j \in (k + 1)..n :
                    /\ batches'[j] = batches[j]
                    /\ \A q \in DOMAIN http' : http'[q].batch # batches[j].batch_id
            /\ \A p, q \in DOMAIN http' : p < q => http'[p].batch < http'[q].batch]_vars

\* Job.is_done returned false at the first batch and never asked for the second
C5_Witness ==
    /\ ret.op = "Job.is_done"
    /\ ret.outcome = "return"
    /\ ~ret.val
    /\ Len(batches) >= 2
    /\ batches[1]._status # None
    /\ ~IsCompleted(batches[1]._status)
    /\ batches[2]._status = None

\* C4: a Job.post(data, b) whose requests all succeed sends ceil(n/b)
\* batch-creation POSTs, the i-th (from 0) with the rows [i*b, min((i+1)*b, n))
\* in their order, returns the ceil(n/b) batches built from the answers in chunk
\* order, and appends exactly these, in that order, to the job's batch list.
C4_PostChunks ==
    [][(ret.op = "none" /\ ret'.op = "Job.post" /\ ret'.outcome = "return") =>
        LET data == ret'.args.data
            b == ret'.args.batch_size
            n == Len(data)
            c == Ceil(n, b)
        IN  /\ Len(http') = c
            /\ \A i \in 0..(c - 1) :
                 http'[i + 1] = BatchPost(SubSeq(data, i * b + 1, Min((i + 1) * b, n)), "")
            /\ Len(ret'.val) = c
            /\ \A i \in 1..c : ret'.val[i] = NewBatch(Len(batches) + i, FALSE)
            /\ batches' = batches \o ret'.val]_vars

\* post of three rows in batches of two: two POSTs, the second with the last row
C4_Witness ==
    /\ ret.op = "Job.post"
    /\ ret.outcome = "return"
    /\ Len(ret.args.data) = 3
    /\ ret.args.batch_size = 2
    /\ Len(http) = 2
    /\ http[2].body.json = <<3>>
    /\ Len(ret.val) = 2

\* C8: every exit from the `with` block sends exactly one close
\* request, and an exception raised inside the block is the one the caller of
\* the block sees.
C8_BlockExceptionAlwaysSeen ==
    [][(scope \in {"inside", "raising"} /\ scope' = "outside") =>
        /\ http' = <<StateChangePost("Closed")>>
        /\ scope = "raising" => (ret'.outcome = "raise" /\ ret'.exc = ret.exc)]_vars

\* the rows of a sequence of served answers, one after the other
RECURSIVE ConcatRows(_)
ConcatRows(entries) ==
    IF entries = <<>> THEN <<>> ELSE Head(entries).rows \o ConcatRows(Tail(entries))

\* what the server answered to the result requests for batch b, in the order asked
ServedTo(b) == SelectSeq(served, LAMBDA e : e.batch = b)

\* the rows of batches k, k+1, ... as the server gave them, batch after batch
RECURSIVE RowsFrom(_)
RowsFrom(k) ==
    IF k > Len(batches) THEN <<>>
    ELSE ConcatRows(ServedTo(batches[k].batch_id)) \o RowsFrom(k + 1)

ResultsFns == {"Batch.results", "BatchQuery.results"}

\* C6: a Job.results drained to its end without error has asked for the
\* results of every batch of the job once, and has yielded the rows of the
\* first batch in the order its results() gave them, then those of the
\* second, and so on in the order of the job's batch list.
C6_JobResultsConcatenation ==
    (ret.op = "Job.results" /\ ret.outcome = "return") =>
        /\ \A k \in 1..Len(batches) :
             Len(SelectSeq(ServedTo(batches[k].batch_id), LAMBDA e : e.chunk = 0)) = 1
        /\ yielded = RowsFrom(1)

\* a job of two batches, both with rows, drained
C6_Witness ==
    /\ ret.op = "Job.results"
    /\ ret.outcome = "return"
    /\ Len(batches) = 2
    /\ \A k \in 1..2 : ConcatRows(ServedTo(batches[k].batch_id)) # <<>>
    /\ Len(yielded) >= 4

\* C7: a BatchQuery.results drained to its end without error has sent one
\* chunk GET per result id, in the order of the result-id list, and has
\* yielded the rows of these chunks in that order, each chunk's rows in the
\* order of its answer, none dropped, repeated or moved.
C7_QueryResultsFlatten ==
    (ret.op = "BatchQuery.results" /\ ret.outcome = "return") =>
        LET b == batches[ret.args.batch].batch_id
            entries == ServedTo(b)
            ids == entries[1].ids
        IN  /\ entries # <<>>
            /\ entries[1].chunk = 0
            /\ Len(entries) = 1 + Len(ids)
            /\ \A j \in 1..Len(ids) : entries[j + 1].chunk = ids[j]
            /\ SelectSeq(yielded, LAMBDA row : row.batch = b) = ConcatRows(entries)

\* a query answered with two result ids, both chunks with rows
C7_Witness ==
    /\ ret.op = "BatchQuery.results"
    /\ ret.outcome = "return"
    /\ frames = <<>>
    /\ Len(served[1].ids) >= 2
    /\ Len(served) = 1 + Len(served[1].ids)
    /\ \A j \in 2..Len(served) : served[j].rows # <<>>
    /\ yielded = ConcatRows(served)

\* the step is a call batch.is_done(reload) on the i-th batch
IsDoneStep(i, reload) ==
    /\ ret.op = "none"
    /\ ret'.op = "Batch.is_done"
    /\ ret'.args.batch = i
    /\ ret'.args.reload = reload

\* the step is a whole batch.wait(...) on the i-th batch, called by the user
\* or by Job.wait
WaitStep(i) ==
    /\ ret.op = "none" \/ (Running("Job.wait") /\ Top.i = i)
    /\ ret'.op = "Batch.wait"
    /\ ret'.args.batch = i

\* the step is the start of results() on the i-th batch, up to its result GET
ResultsStep(i) ==
    /\ frames # <<>>
    /\ Top.fn \in ResultsFns
    /\ Top.pc = "start"
    /\ Top.batch = i

FailedWith(r, snap) ==
    /\ r.outcome = "raise"
    /\ r.exc = BulkBatchFailed(snap.jobId, snap.id, snap.stateMessage)

\* C9: once the status kept for a batch is an error state, every is_done,
\* wait and results on that batch raises BulkBatchFailed and sends no status
\* GET for the batch.
C9_ErrorStateNeverRepolled ==
    [][\A i \in 1..Len(batches) :
        (/\ IsError(batches[i]._status)
         /\ IsDoneStep(i, FALSE) \/ IsDoneStep(i, TRUE) \/ WaitStep(i) \/ ResultsStep(i))
        => /\ FailedWith(ret', batches[i]._status)
           /\ \A j \in 1..Len(http') : http'[j] # StatusGet(batches[i].batch_id)]_vars

\* C9 as amended: once the status kept for a batch is an error state,
\* is_done() without reload and results() raise BulkBatchFailed from the kept
\* snapshot and send no request at all; wait() and is_done(reload=True) send
\* a new status GET, and raise BulkBatchFailed exactly when the last answer
\* they got is again a snapshot in an error state.
C9_ErrorStateSurfaced ==
    [][\A i \in 1..Len(batches) :
        IsError(batches[i]._status) =>
          /\ (IsDoneStep(i, FALSE) \/ ResultsStep(i)) =>
               /\ FailedWith(ret', batches[i]._status)
               /\ http' = <<>>
               /\ batches' = batches
          /\ (IsDoneStep(i, TRUE) \/ WaitStep(i)) =>
               /\ http' # <<>>
               /\ \A j \in 1..Len(http') : http'[j] = StatusGet(batches[i].batch_id)
               /\ IF ~HttpError(ret'.exc) /\ IsError(batches'[i]._status)
                  THEN FailedWith(ret', batches'[i]._status)
                  ELSE ret'.exc.type # "BulkBatchFailed"]_vars

\* results() on a batch whose kept status is an error state: BulkBatchFailed
\* with the kept job id, batch id and message, and nothing sent
C9_Witness ==
    /\ ret.op \in ResultsFns
    /\ ret.outcome = "raise"
    /\ ret.exc.type = "BulkBatchFailed"
    /\ http = <<>>
    /\ IsError(batches[ret.args.batch]._status)
    /\ FailedWith(ret, batches[ret.args.batch]._status)

\* C10: a result GET (the result endpoint or one of its chunks) is sent for
\* a batch only when the last state seen for that batch is the completed
\* state; none is sent after a wait that timed out on a batch in progress.
C10_ResultGetOnlyWhenCompleted ==
    \A j \in 1..Len(http) :
        http[j].target \in {"batch/result", "batch/result/id"} =>
            IsCompleted(batches[http[j].batch]._status)

LastCode == answered[Len(answered)]

PollOps == {"Batch.status", "Batch.is_done", "Batch.wait"}

\* C11: a request of the job (query, post, close, abort) whose answer has a
\* status >= 400 fails with a BulkApiError carrying the body of the answer in
\* its message and the status code of the answer; with a status below 400
\* for every answer the call raises nothing.
C11_CheckStatusBulkApiError ==
    (ret.op \in {"Job.query", "Job.post", "Job.close", "Job.abort"} /\ answered # <<>>) =>
        IF LastCode >= 400
        THEN /\ ret.outcome = "raise"
             /\ ret.exc = BulkApiError(<<"Bulk API HTTP Error result: ", "error">>, LastCode)
        ELSE ret.outcome = "return"

\* C12: in Batch.status, is_done, Batch.wait and Job.wait an answer to a
\* status GET that is no 2xx ends the call with an error at once: it is the
\* last answer of the call, every request was sent once, and the call raised.
C12_NonSuccessPollRaises ==
    ret.op \in PollOps =>
        /\ Len(http) = Len(answered)
        /\ \A j \in 1..Len(answered) :
             answered[j] \notin 200..299 =>
                (j = Len(answered) /\ ret.outcome = "raise" /\ frames = <<>>)

\* C12, for the answers check_status rejects: an answer to a status GET with
\* a status >= 400 is the last answer of the call, which raises the error
\* check_status raised, never a batch failure and never a normal return.
C12_RejectedPollRaises ==
    ret.op \in PollOps =>
        /\ Len(http) = Len(answered)
        /\ \A j \in 1..Len(answered) :
             answered[j] >= 400 =>
                /\ j = Len(answered)
                /\ ret.outcome = "raise"
                /\ HttpError(ret.exc)
                /\ frames = <<>>

\* a wait that saw the batch in progress and then got a rejected poll
C12_Witness ==
    /\ ret.op = "Batch.wait"
    /\ Len(answered) >= 2
    /\ answered[1] = 200
    /\ LastCode >= 400
    /\ ret.outcome = "raise"
    /\ HttpError(ret.exc)

ResultTargets == {"batch/result", "batch/result/id"}

\* C13: results are produced on demand: a step that sends a result GET (the
\* result of a batch, or a chunk of a query) is taken only when every row
\* the server gave before has been yielded, so the GET of chunk i+1 follows
\* the last row of chunk i and, in Job.results, the result GET of batch k+1
\* follows the last row of batch k.
C13_ResultsOnDemand ==
    [][(http' # <<>> /\ http'[1].target \in ResultTargets /\ frames # <<>>)
         => yielded = ConcatRows(served)]_vars

\* the second chunk of a query was fetched after the rows of the first had
\* been yielded
C13_Witness ==
    /\ Running("BatchQuery.results")
    /\ Len(served) = 3
    /\ served[2].rows # <<>>
    /\ yielded = served[2].rows
    /\ http = <<ChunkGet(served[3].batch, served[3].chunk)>>

\* the batches of the job that are not completed
Unfinished == {k \in 1..Len(batches) : ~IsCompleted(batches[k]._status)}

C15_AbortedJobReported ==
    [][(job_state = "Aborted" /\ ret.op = "none" /\ ret'.op \in {"Job.close", "Job.abort"})
         => (ret'.outcome = "raise" /\ ret'.exc = BulkJobAborted(JobId))]_vars

Constructed == ret.op = "SalesforceBulk"

\* C16: SalesforceBulk(...) called with neither a session id nor a username
\* (each absent or empty) raises the configuration error and has sent no
\* request, the login request included.
C16_NoCredentialsFailsBeforeNetwork ==
    (Constructed /\ ~Truthy(ret.args.sessionId) /\ ~Truthy(ret.args.username)) =>
        /\ ret.outcome = "raise"
        /\ ret.exc = ConfigurationError
        /\ http = <<>>
        /\ answered = <<>>

\* a construction with only a password
C16_Witness ==
    /\ Constructed
    /\ ret.args.sessionId = None
    /\ ret.args.username = None
    /\ ret.args.password # None
    /\ ret.outcome = "raise"
    /\ http = <<>>

\* C17: SalesforceBulk(sessionId=s) with a session id and no username sends
\* no login request and returns a client whose X-SFDC-Session header is s.
C17_SuppliedSessionUsed ==
    (Constructed /\ Truthy(ret.args.sessionId) /\ ~Truthy(ret.args.username)) =>
        /\ http = <<>>
        /\ ret.outcome = "return"
        /\ ret.val.headers["X-SFDC-Session"] = ret.args.sessionId

\* the step is a whole batch.status(reload) on the i-th batch
StatusStep(i, reload) ==
    /\ ret.op = "none"
    /\ ret'.op = "Batch.status"
    /\ ret'.args = [batch |-> i, reload |-> reload]

\* C18: a Batch.status whose GET is rejected by check_status leaves the
\* batches as they were: the snapshot kept for the batch is the one it had
\* before the call, absent or present; and a status(reload=False) sends a GET
\* exactly when no snapshot is kept, else returns the kept one.
C18_FailedPollKeepsCache ==
    [][\A i \in 1..Len(batches) :
         /\ \A reload \in BOOLEAN :
              (StatusStep(i, reload) /\ ret'.outcome = "raise") =>
                  /\ http' = <<StatusGet(batches[i].batch_id)>>
                  /\ answered'[1] >= 400
                  /\ batches' = batches
         /\ StatusStep(i, FALSE) =>
              IF batches[i]._status = None
              THEN http' = <<StatusGet(batches[i].batch_id)>>
              ELSE /\ http' = <<>>
                   /\ ret' = Returned("Batch.status", ret'.args, batches[i]._status)
                   /\ batches' = batches]_vars

\* a reload answered with an error, on a batch that keeps a snapshot
C18_Witness ==
    /\ ret.op = "Batch.status"
    /\ ret.args.reload
    /\ ret.outcome = "raise"
    /\ answered = <<400>>
    /\ batches[ret.args.batch]._status # None

\* the answers that accepted a request
Accepted == SelectSeq(answered, LAMBDA c : c < 400)

\* C19: a Job.post whose POST for chunk j (from 0) is rejected raises at
\* once: it has sent the POSTs of chunks 0..j and no other, and the batches
\* of chunks 0..j-1 stay on the job's batch list.  Every query and post,
\* failed or not, appends to the batch list the batches of the requests that
\* were accepted, in the order of the requests, and nothing else.
C19_FailedPostKeepsCreated ==
    [][(ret.op = "none" /\ ret'.op \in {"Job.post", "Job.query"}) =>
         /\ Len(http') = Len(answered')
         /\ Len(batches') = Len(batches) + Len(Accepted')
         /\ SubSeq(batches', 1, Len(batches)) = batches
         /\ \A k \in 1..Len(Accepted') :
              /\ answered'[k] < 400
              /\ batches'[Len(batches) + k]
                   = NewBatch(Len(batches) + k, ret'.op = "Job.query")
         /\ ret'.outcome = "raise" <=> Len(Accepted') < Len(answered')
         /\ (ret'.op = "Job.post" /\ ret'.outcome = "raise") =>
              LET data == ret'.args.data
                  b == ret'.args.batch_size
                  j == Len(Accepted')
              IN  /\ Len(http') = j + 1
                  /\ j + 1 <= Ceil(Len(data), b)
                  /\ answered'[j + 1] >= 400
                  /\ \A i \in 0..j :
                       http'[i + 1] = BatchPost(SubSeq(data, i * b + 1,
                                                       Min((i + 1) * b, Len(data))), "")]_vars

\* a post of two chunks whose second POST was rejected: one batch was added
C19_Witness ==
    /\ ret.op = "Job.post"
    /\ ret.outcome = "raise"
    /\ answered = <<200, 400>>
    /\ Len(http) = 2
    /\ Len(batches) >= 1
    /\ batches[Len(batches)] = NewBatch(Len(batches), FALSE)

\* C20: every Batch.wait that has started comes to its end, by returning or
\* by raising, whatever the timeout, the interval and the answers.
C20_WaitTerminates == Running("Batch.wait") ~> frames = <<>>
====
